---- MODULE Spec2Model ----
(***************************************************************************)
(* Sync orchestration engine of the SalesTrack backend:                    *)
(*   backend/app/services/daily_sync_service.py  (DailySyncService)        *)
(*   backend/app/services/scheduler_service.py   (SchedulerService)        *)
(*   backend/app/api/v1/sync.py                  (HTTP operations)         *)
(*   backend/app/models/daily_sync.py            (tables)                  *)
(*                                                                         *)
(* The program runs as one uvicorn process with one asyncio event loop     *)
(* (main.py: uvicorn.run without workers).  A coroutine runs without       *)
(* interruption until it reaches an await, so every action below is the    *)
(* code between two awaits.  start_sync contains no await: its check of    *)
(* the running record and its insert are one step.  The pipeline           *)
(* _perform_sync is split at its awaits and at its external calls.         *)
(*                                                                         *)
(* The tables hold committed rows.  Rows added to the session and not yet  *)
(* committed are kept in the task (snap_pending).                          *)
(***************************************************************************)
EXTENDS Integers, Sequences, FiniteSets, TLC

\* ---------------------------------------------------------------- bounds
MaxSyncs    == 2    \* sync attempts per run of Spec
MaxAttempts == 1    \* sync attempts per run of SpecPipeline
MaxVideos   == 2    \* length of the video list a fetch returns
MaxTime     == 1    \* hours the clock advances
MaxLoops    == 1    \* _scheduler_loop tasks created per run of SpecLoop

\* ------------------------------------------------------------- constants
Channels          == {"c1", "c2"}
ConfiguredChannel == "c1"          \* get_youtube_config()["channel_id"]
DefaultFrequencyHours == 24
MetricsEstimate   == 10            \* api_calls_made += 10
PageSize          == 50            \* len(videos_data) // 50
PageOverhead      == 2             \* ... + 2
FreqChoices       == {1, DefaultFrequencyHours}
\* the hours at which a run looks at the clock after hour 0: around one
\* hour and around the default frequency
Instants          ==
    {1} \cup ((DefaultFrequencyHours - 1)..(DefaultFrequencyHours + MaxTime))
DefaultMaxRetries == 3
DefaultRetryDelay == 30
RetryChoices      == {0, DefaultMaxRetries}
DelayChoices      == {0, DefaultRetryDelay}
NULL              == -1            \* a NULL integer / timestamp column
NoMessage         == "NULL"        \* a NULL text column
\* str(e) of the exceptions a step can raise: Exception() has the empty text
ErrTexts          == {"", "boom"}
\* a fetched video: video_data.get("video_id") is set, or it is missing
VideoItems        == {"id", "noid"}

VARIABLES
    records,      \* daily_youtube_syncs: sequence, index = sync_id
    snapshots,    \* youtube_data_snapshots: set of rows
    metrics,      \* sync_metrics: set of rows
    configs,      \* sync_configurations: channel -> row or NoConfig
    tasks,        \* the _perform_sync task of each sync_id
    sync_tasks,   \* SchedulerService.sync_tasks: channel -> task state
    running,      \* SchedulerService.running
    now,          \* wall clock, in hours
    forced,       \* channels on which start_sync ran with force=True
    event,        \* what the step just taken returned or raised
    tz_aware,     \* the database returns DateTime(timezone=True) columns
                  \* with their time zone (PostgreSQL) or without it (the
                  \* SQLite of the default DATABASE_URL)
    loops         \* the _scheduler_loop tasks, in the order of creation

vars == <<records, snapshots, metrics, configs, tasks, sync_tasks, running,
          now, forced, event, tz_aware, loops>>

\* rows: the number of sync_configurations rows of the channel; exists: the
\* query for the row finds one; updated_at: the statement that wrote the
\* column last, the INSERT with its default func.now() ("insert") or the
\* assignment of update_sync_configuration ("update")
NoConfig == [exists |-> FALSE, rows |-> 0, sync_enabled |-> FALSE,
             sync_frequency_hours |-> 0, max_retries |-> 0,
             retry_delay_minutes |-> 0, updated_at |-> "NULL"]
\* a call that returns no response body
NoBody   == [kind |-> "none"]
NoEvent  == [op |-> "none", channel_id |-> "", force |-> FALSE,
             outcome |-> "", sync_id |-> 0, body |-> NoBody]

SyncIds == 1..Len(records)

RECURSIVE VideoLists(_)
VideoLists(n) ==
    IF n = 0 THEN {<<>>}
    ELSE LET S == VideoLists(n - 1)
         IN  S \cup {Append(s, v) : s \in {t \in S : Len(t) = n - 1}, v \in VideoItems}

\* ------------------------------------------------------------ start_sync
\* the running-record query of start_sync
RunningSyncs(channel_id) ==
    {sid \in SyncIds : records[sid].channel_id = channel_id
                       /\ records[sid].sync_status = "running"}

\* the guard without the running-record check
GuardRejectsNever(channel_id, force) ==
    FALSE

\* the guard that looks for a running record of any channel
GuardRejectsAnyChannel(channel_id, force) ==
    (\E c \in Channels : RunningSyncs(c) # {}) /\ ~force

\* if running_sync and not force: raise ValueError
GuardRejects(channel_id, force) ==
    RunningSyncs(channel_id) # {} /\ ~force

\* the record with sync_status left to the column default
NewSyncRecordDefaultStatus(channel_id) ==
    [channel_id |-> channel_id, sync_status |-> "pending",
     started_at |-> now, completed_at |-> NULL, error_message |-> NoMessage,
     videos_synced |-> 0, api_calls_made |-> 0,
     sync_duration_seconds |-> NULL]

\* DailyYouTubeSync(sync_id, channel_id, sync_status="running", started_at)
NewSyncRecord(channel_id) ==
    [channel_id |-> channel_id, sync_status |-> "running",
     started_at |-> now, completed_at |-> NULL, error_message |-> NoMessage,
     videos_synced |-> 0, api_calls_made |-> 0,
     sync_duration_seconds |-> NULL]

\* the task awaited inside start_sync up to its first external call
NewTaskStarted ==
    [pc |-> "fetch_videos", start_time |-> now, api_calls_made |-> 10,
     videos_synced |-> 0, videos_data |-> <<>>, snap_pending |-> NULL,
     error_message |-> NoMessage, upsertable |-> 0, upsert_errors |-> 0,
     raised_at |-> "none", escaped |-> FALSE]

\* the task asyncio.create_task(self._perform_sync(...)) before its first
\* step: pc and the locals of _perform_sync.  upsertable, upsert_errors,
\* raised_at and escaped record what happened to the task (the code logs it)
NewTask ==
    [pc |-> "collect", start_time |-> NULL, api_calls_made |-> 0,
     videos_synced |-> 0, videos_data |-> <<>>, snap_pending |-> NULL,
     error_message |-> NoMessage, upsertable |-> 0, upsert_errors |-> 0,
     raised_at |-> "none", escaped |-> FALSE]

StartEvent(op, channel_id, force, outcome, sid) ==
    [op |-> op, channel_id |-> channel_id, force |-> force,
     outcome |-> outcome, sync_id |-> sid, body |-> NoBody]

\* start_sync that inserts its record before it looks for a running one
StartSyncInsertFirst(op, channel_id, force) ==
    /\ forced' = IF force THEN forced \cup {channel_id} ELSE forced
    /\ records' = Append(records, NewSyncRecord(channel_id))
    /\ IF GuardRejects(channel_id, force)
       THEN /\ event' = StartEvent(op, channel_id, force, "ValueError", 0)
            /\ tasks' = Append(tasks, [NewTask EXCEPT !.pc = "done"])
       ELSE /\ tasks' = Append(tasks, NewTask)
            /\ event' = StartEvent(op, channel_id, force, "returned",
                                   Len(records) + 1)

\* start_sync whose force flag ends the running attempts of the channel
StartSyncForceReplaces(op, channel_id, force) ==
    IF GuardRejects(channel_id, force)
    THEN /\ event' = StartEvent(op, channel_id, force, "ValueError", 0)
         /\ UNCHANGED <<records, tasks, forced>>
    ELSE /\ forced' = IF force THEN forced \cup {channel_id} ELSE forced
         /\ records' = Append(
                [sid \in SyncIds |->
                    IF sid \in RunningSyncs(channel_id)
                    THEN [records[sid] EXCEPT !.sync_status = "failed"]
                    ELSE records[sid]],
                NewSyncRecord(channel_id))
         /\ tasks' = Append(tasks, NewTask)
         /\ event' = StartEvent(op, channel_id, force, "returned",
                                Len(records) + 1)

\* start_sync as called by op: its effect on the store, on the task list
\* and the caller's result.  It contains no await: one step.
StartSync(op, channel_id, force) ==
    IF GuardRejects(channel_id, force)
    THEN /\ event' = StartEvent(op, channel_id, force, "ValueError", 0)
         /\ UNCHANGED <<records, tasks, forced>>
    ELSE /\ forced' = IF force THEN forced \cup {channel_id} ELSE forced
         /\ records' = Append(records, NewSyncRecord(channel_id))
         /\ tasks' = Append(tasks, NewTask)
         /\ event' = StartEvent(op, channel_id, force, "returned",
                                Len(records) + 1)

\* SchedulerService.trigger_manual_sync
TriggerManualSync(channel_id, force) ==
    /\ StartSync("trigger_manual_sync", channel_id, force)
    /\ UNCHANGED <<snapshots, metrics, configs, sync_tasks, running, now,
                   tz_aware, loops>>

\* ---------------------------------------------------- check_sync_needed
CompletedSyncs(channel_id) ==
    {sid \in SyncIds : records[sid].channel_id = channel_id
                       /\ records[sid].sync_status = "completed"}

\* .order_by(desc(completed_at)).first()
LastCompleted(channel_id) ==
    CHOOSE sid \in CompletedSyncs(channel_id) :
        \A o \in CompletedSyncs(channel_id) :
            records[o].completed_at <= records[sid].completed_at

\* datetime.now(timezone.utc) - last_sync.completed_at: the difference of
\* an aware and a naive datetime raises TypeError, which the except clause
\* of line 62-64 turns into False
\* check_sync_needed with a retry rule: after a failed attempt the channel
\* is due as long as the configuration allows a retry
SyncNeededRetries(sync_config, channel_id) ==
    IF ~sync_config.exists \/ ~sync_config.sync_enabled THEN FALSE
    ELSE IF \E sid \in SyncIds : /\ records[sid].channel_id = channel_id
                                 /\ records[sid].sync_status = "failed"
         THEN sync_config.max_retries > 0
    ELSE IF CompletedSyncs(channel_id) = {} THEN TRUE
    ELSE IF ~tz_aware THEN FALSE
    ELSE now - records[LastCompleted(channel_id)].completed_at
             >= sync_config.sync_frequency_hours

\* the decision of check_sync_needed for the configuration row sync_config
SyncNeeded(sync_config, channel_id) ==
    IF ~sync_config.exists \/ ~sync_config.sync_enabled THEN FALSE
    ELSE IF CompletedSyncs(channel_id) = {} THEN TRUE
    ELSE IF ~tz_aware THEN FALSE
    ELSE now - records[LastCompleted(channel_id)].completed_at
             >= sync_config.sync_frequency_hours

\* check_sync_needed with the row that its first query returns
CheckSyncNeeded(channel_id) ==
    SyncNeeded(configs[channel_id], channel_id)

\* --------------------------------------------------------- _perform_sync
SetTask(sid, t) == tasks' = [tasks EXCEPT ![sid] = t]

PipelineFrame ==
    UNCHANGED <<configs, sync_tasks, running, now, forced, tz_aware, loops>>

\* line 103 and the await of collect_daily_metrics (line 112-113)
CollectDailyMetrics(sid, raises, text) ==
    /\ tasks[sid].pc = "collect"
    /\ LET t == [tasks[sid] EXCEPT !.start_time = now]
       IN  IF raises
           THEN SetTask(sid, [t EXCEPT !.pc = "handler", !.error_message = text,
                                       !.raised_at = "collect"])
           ELSE SetTask(sid, [t EXCEPT !.pc = "fetch_videos",
                                       !.api_calls_made = @ + MetricsEstimate])
    /\ event' = NoEvent
    /\ UNCHANGED <<records, snapshots, metrics>>
    /\ PipelineFrame

\* api_calls_made += len(videos_data) // 50 + 2
FetchEstimate(videos_data) == (Len(videos_data) \div PageSize) + PageOverhead

\* the fetch whose error is logged and the pipeline goes on with no videos
FetchAllVideosSwallows(sid, raises, text, videos_data) ==
    /\ tasks[sid].pc = "fetch_videos"
    /\ IF raises
       THEN SetTask(sid, [tasks[sid] EXCEPT !.pc = "fetch_channel",
                                            !.error_message = text,
                                            !.raised_at = "fetch_videos"])
       ELSE SetTask(sid, [tasks[sid] EXCEPT
                            !.pc = "fetch_channel",
                            !.videos_data = videos_data,
                            !.api_calls_made = @ + FetchEstimate(videos_data)])
    /\ event' = NoEvent
    /\ UNCHANGED <<records, snapshots, metrics>>
    /\ PipelineFrame

\* get_all_channel_videos (line 116-117)
FetchAllVideos(sid, raises, text, videos_data) ==
    /\ tasks[sid].pc = "fetch_videos"
    /\ IF raises
       THEN SetTask(sid, [tasks[sid] EXCEPT !.pc = "handler",
                                            !.error_message = text,
                                            !.raised_at = "fetch_videos"])
       ELSE SetTask(sid, [tasks[sid] EXCEPT
                            !.pc = "fetch_channel",
                            !.videos_data = videos_data,
                            !.api_calls_made = @ + FetchEstimate(videos_data)])
    /\ event' = NoEvent
    /\ UNCHANGED <<records, snapshots, metrics>>
    /\ PipelineFrame

\* get_channel_info and, when it returns, the snapshot row added to the
\* session (line 120-147): the row is pending until the next commit
FetchChannelInfo(sid, raises, text) ==
    /\ tasks[sid].pc = "fetch_channel"
    /\ IF raises
       THEN SetTask(sid, [tasks[sid] EXCEPT !.pc = "handler",
                                            !.error_message = text,
                                            !.raised_at = "fetch_channel"])
       ELSE SetTask(sid, [tasks[sid] EXCEPT
                            !.pc = "upsert",
                            !.snap_pending = Len(tasks[sid].videos_data)])
    /\ event' = NoEvent
    /\ UNCHANGED <<records, snapshots, metrics>>
    /\ PipelineFrame

\* the loop of _update_video_records from item i with videos_updated = n;
\* fail_at is the item whose upsert raises (0: none).  The try encloses the
\* whole loop: an exception returns the count reached so far
RECURSIVE VideosUpdated(_, _, _, _)
VideosUpdated(videos_data, fail_at, i, n) ==
    IF i > Len(videos_data) THEN n
    ELSE IF videos_data[i] = "noid"
         THEN VideosUpdated(videos_data, fail_at, i + 1, n)
    ELSE IF i = fail_at THEN n
    ELSE VideosUpdated(videos_data, fail_at, i + 1, n + 1)

\* the items on which an upsert can raise
FailPoints(videos_data) ==
    {0} \cup {i \in 1..Len(videos_data) : videos_data[i] = "id"}

\* the videos of the list that can be upserted when item fail_at raises
Upsertable(videos_data, fail_at) ==
    Cardinality({i \in 1..Len(videos_data) :
                    videos_data[i] = "id" /\ i # fail_at})

\* await self._update_video_records(videos_data, channel_id) (line 150) and
\* await self._update_channel_record(...) (line 153), which swallows its
\* errors; videos_data is not read after line 150
UpdateVideoRecords(sid, fail_at) ==
    /\ tasks[sid].pc = "upsert"
    /\ fail_at \in FailPoints(tasks[sid].videos_data)
    /\ SetTask(sid, [tasks[sid] EXCEPT
                       !.pc = "complete",
                       !.videos_synced =
                           VideosUpdated(tasks[sid].videos_data, fail_at, 1, 0),
                       !.upsertable = Upsertable(tasks[sid].videos_data, fail_at),
                       !.upsert_errors = IF fail_at = 0 THEN 0 ELSE 1,
                       !.videos_data = <<>>])
    /\ event' = NoEvent
    /\ UNCHANGED <<records, snapshots, metrics>>
    /\ PipelineFrame

SnapshotRow(sid) ==
    [sync_id |-> sid, channel_id |-> records[sid].channel_id,
     video_count |-> tasks[sid].snap_pending]

\* a commit that stores a snapshot for the attempt whatever it fetched
CommittedSnapshotsAlways(sid) ==
    snapshots \cup {SnapshotRow(sid)}

\* rows the commit of task sid writes besides the record
CommittedSnapshots(sid) ==
    IF tasks[sid].snap_pending # NULL THEN snapshots \cup {SnapshotRow(sid)}
    ELSE snapshots

\* the record as line 161-165 leaves it
CompletedRecord(sid) ==
    [records[sid] EXCEPT
        !.sync_status = "completed",
        !.completed_at = now,
        !.videos_synced = tasks[sid].videos_synced,
        !.api_calls_made = tasks[sid].api_calls_made,
        !.sync_duration_seconds = now - tasks[sid].start_time]

\* the failed transition that leaves error_message and the duration alone
FailedRecordStatusOnly(sid) ==
    [records[sid] EXCEPT
        !.sync_status = "failed",
        !.completed_at = now,
        !.api_calls_made = tasks[sid].api_calls_made]

\* the record as line 181-185 leaves it
FailedRecord(sid) ==
    [records[sid] EXCEPT
        !.sync_status = "failed",
        !.completed_at = now,
        !.error_message = tasks[sid].error_message,
        !.api_calls_made = tasks[sid].api_calls_made,
        !.sync_duration_seconds = now - tasks[sid].start_time]

\* the completion that selects the record by channel_id, not by sync_id
MarkCompletedByChannel(sid, raises, text) ==
    /\ tasks[sid].pc = "complete"
    /\ records' = [s \in SyncIds |->
                     IF records[s].channel_id = records[sid].channel_id
                     THEN [CompletedRecord(sid) EXCEPT
                              !.started_at = records[s].started_at]
                     ELSE records[s]]
    /\ snapshots' = CommittedSnapshots(sid)
    /\ SetTask(sid, [tasks[sid] EXCEPT !.pc = "metrics",
                                       !.snap_pending = NULL])
    /\ event' = NoEvent
    /\ UNCHANGED metrics
    /\ PipelineFrame

\* line 155-167.  raises: the commit of line 167 fails, which rolls the
\* session back and enters the except block
MarkCompleted(sid, raises, text) ==
    /\ tasks[sid].pc = "complete"
    /\ IF ~raises
       THEN /\ records' = [records EXCEPT ![sid] = CompletedRecord(sid)]
            /\ snapshots' = CommittedSnapshots(sid)
            /\ SetTask(sid, [tasks[sid] EXCEPT !.pc = "metrics",
                                               !.snap_pending = NULL])
       ELSE /\ SetTask(sid, [tasks[sid] EXCEPT
                               !.pc = "handler",
                               !.error_message = text,
                               !.raised_at = "complete",
                               !.snap_pending = NULL])
            /\ UNCHANGED <<records, snapshots>>
    /\ event' = NoEvent
    /\ UNCHANGED metrics
    /\ PipelineFrame

\* the except block, line 171-187.  When its own query or commit raises,
\* the exception leaves the task after the finally block has run
MarkFailed(sid, raises) ==
    /\ tasks[sid].pc = "handler"
    /\ IF raises
       THEN /\ SetTask(sid, [tasks[sid] EXCEPT !.pc = "metrics",
                                               !.escaped = TRUE,
                                               !.snap_pending = NULL])
            /\ UNCHANGED <<records, snapshots>>
       ELSE /\ records' = [records EXCEPT ![sid] = FailedRecord(sid)]
            /\ snapshots' = CommittedSnapshots(sid)
            /\ SetTask(sid, [tasks[sid] EXCEPT !.pc = "metrics",
                                               !.snap_pending = NULL])
    /\ event' = NoEvent
    /\ UNCHANGED metrics
    /\ PipelineFrame

\* SyncMetrics(...) of _record_sync_metrics; api_errors, rate_limit_hits and
\* timeout_errors are not passed and take the column default 0
MetricsOf(sid) == {m \in metrics : m.sync_id = sid}

\* metric_id numbers the rows of one sync_id
MetricsRow(sid) ==
    [metric_id |-> Cardinality(MetricsOf(sid)) + 1,
     sync_id |-> sid, channel_id |-> records[sid].channel_id,
     api_calls_made |-> tasks[sid].api_calls_made,
     videos_processed |-> tasks[sid].videos_synced,
     videos_updated |-> tasks[sid].videos_synced,
     api_errors |-> 0]

\* _record_sync_metrics without its except clause: a failed write leaves
\* the task as an exception and the record is marked failed on the way out
RecordSyncMetricsPropagates(sid, raises) ==
    /\ tasks[sid].pc = "metrics"
    /\ metrics' = IF raises THEN metrics ELSE metrics \cup {MetricsRow(sid)}
    /\ records' = IF raises THEN [records EXCEPT ![sid] = FailedRecord(sid)]
                  ELSE records
    /\ SetTask(sid, [NewTask EXCEPT
                       !.pc = "done",
                       !.upsert_errors = tasks[sid].upsert_errors,
                       !.raised_at = tasks[sid].raised_at,
                       !.escaped = raises \/ tasks[sid].escaped])
    /\ event' = NoEvent
    /\ UNCHANGED snapshots
    /\ PipelineFrame

\* the finally block, line 189-191, and _record_sync_metrics; the task ends
\* and its locals are gone
RecordSyncMetrics(sid, raises) ==
    /\ tasks[sid].pc = "metrics"
    /\ metrics' = IF raises THEN metrics ELSE metrics \cup {MetricsRow(sid)}
    /\ SetTask(sid, [NewTask EXCEPT
                       !.pc = "done",
                       !.upsert_errors = tasks[sid].upsert_errors,
                       !.raised_at = tasks[sid].raised_at,
                       !.escaped = tasks[sid].escaped])
    /\ event' = NoEvent
    /\ UNCHANGED <<records, snapshots>>
    /\ PipelineFrame

\* ------------------------------------------------------------- scheduler
StoreFrame ==
    UNCHANGED <<records, snapshots, metrics, tasks, forced, tz_aware>>

\* SchedulerService.start_scheduler
StartScheduler ==
    /\ ~running
    /\ running' = TRUE
    /\ event' = NoEvent
    /\ StoreFrame
    /\ UNCHANGED <<configs, sync_tasks, now, loops>>

\* stop_scheduler that leaves the dispatched tasks alone
StopSchedulerKeepsTasks ==
    /\ running
    /\ running' = FALSE
    /\ event' = NoEvent
    /\ StoreFrame
    /\ UNCHANGED <<configs, sync_tasks, now, loops>>

\* stop_scheduler that also drops the configurations of the channels whose
\* tasks it cancels
StopSchedulerDropsConfigs ==
    /\ running
    /\ running' = FALSE
    /\ configs' = [c \in Channels |->
                     IF sync_tasks[c] = "pending" THEN NoConfig
                     ELSE configs[c]]
    /\ sync_tasks' = [c \in Channels |-> "none"]
    /\ event' = NoEvent
    /\ StoreFrame
    /\ UNCHANGED <<now, loops>>

\* SchedulerService.stop_scheduler: cancels the tasks of sync_tasks that
\* have not run yet and clears the map
StopScheduler ==
    /\ running
    /\ running' = FALSE
    /\ sync_tasks' = [c \in Channels |-> "none"]
    /\ event' = NoEvent
    /\ StoreFrame
    /\ UNCHANGED <<configs, now, loops>>

\* _check_channel_sync for one enabled configuration: the new map entry
CheckChannelSync(channel_id) ==
    IF sync_tasks[channel_id] = "pending" THEN "pending"
    ELSE IF CheckSyncNeeded(channel_id) THEN "pending"
    ELSE sync_tasks[channel_id]

\* one tick of _scheduler_loop: _check_and_run_syncs over the enabled rows
SchedulerTick ==
    /\ running
    /\ sync_tasks' = [c \in Channels |->
                        IF configs[c].exists /\ configs[c].sync_enabled
                        THEN CheckChannelSync(c) ELSE sync_tasks[c]]
    /\ event' = NoEvent
    /\ StoreFrame
    /\ UNCHANGED <<configs, running, now, loops>>

\* _run_channel_sync that passes force=True
RunChannelSyncForced(channel_id) ==
    /\ sync_tasks[channel_id] = "pending"
    /\ StartSync("scheduler", channel_id, TRUE)
    /\ sync_tasks' = [sync_tasks EXCEPT ![channel_id] = "none"]
    /\ UNCHANGED <<snapshots, metrics, configs, running, now, tz_aware,
                   loops>>

\* the task _run_channel_sync: start_sync(force=False), errors logged,
\* finally the map entry is deleted
RunChannelSync(channel_id) ==
    /\ sync_tasks[channel_id] = "pending"
    /\ StartSync("scheduler", channel_id, FALSE)
    /\ sync_tasks' = [sync_tasks EXCEPT ![channel_id] = "none"]
    /\ UNCHANGED <<snapshots, metrics, configs, running, now, tz_aware,
                   loops>>

\* SchedulerService.get_sync_status: the channels of the map whose task is
\* not done, their number and the running flag
SchedulerStatus ==
    LET running_syncs == {c \in Channels : sync_tasks[c] = "pending"}
    IN  [scheduler_running |-> running,
         running_syncs |-> running_syncs,
         total_running_syncs |-> Cardinality(running_syncs)]

\* ------------------------------------------------------- _scheduler_loop
TickSeconds    == 3600     \* await asyncio.sleep(3600)
BackoffSeconds == 300      \* await asyncio.sleep(300)

\* what goes wrong in a tick: nothing, the query for the enabled
\* configurations (or get_db), or _check_channel_sync of one channel
TickErrors == {"none", "query"} \cup Channels

\* _check_and_run_syncs lets the exception out to _scheduler_loop: never, its
\* whole body is inside try / except Exception (line 73-101)
TickRaises(err) == FALSE

\* the task asyncio.create_task(self._scheduler_loop()) before its first
\* step; wait: the seconds of its last sleep, tick_error: its last tick
\* logged an error
NewLoop == [pc |-> "while", wait |-> 0, tick_error |-> FALSE]

\* the rows of the query of line 77-79
EnabledChannels ==
    {c \in Channels : configs[c].exists /\ configs[c].sync_enabled}

\* the channels whose _check_channel_sync runs to its end in the tick
Checked(err) == IF err = "query" THEN {} ELSE EnabledChannels \ {err}

\* start_scheduler with the loop task it creates
StartSchedulerLoop ==
    /\ ~running
    /\ running' = TRUE
    /\ loops' = Append(loops, NewLoop)
    /\ event' = NoEvent
    /\ StoreFrame
    /\ UNCHANGED <<configs, sync_tasks, now>>

\* a loop whose tick error ends it
LoopTickCrashes(l, err) ==
    /\ loops[l].pc = "while"
    /\ running
    /\ err \in {"none", "query"} \cup EnabledChannels
    /\ sync_tasks' = [c \in Channels |->
                        IF err = "none" /\ c \in EnabledChannels
                        THEN CheckChannelSync(c) ELSE sync_tasks[c]]
    /\ loops' = [loops EXCEPT ![l] =
                    [pc |-> IF err = "none" THEN "sleep" ELSE "ended",
                     wait |-> IF err = "none" THEN TickSeconds ELSE 0,
                     tick_error |-> err # "none"]]
    /\ event' = StartEvent("tick", IF err \in Channels THEN err ELSE "",
                           FALSE, IF err \in Channels THEN "channel" ELSE err,
                           l)
    /\ StoreFrame
    /\ UNCHANGED <<configs, running, now>>

\* while self.running (true), _check_and_run_syncs with the error err, and
\* the start of the sleep that follows (line 56-69)
LoopTick(l, err) ==
    /\ loops[l].pc = "while"
    /\ running
    /\ err \in {"none", "query"} \cup EnabledChannels
    /\ sync_tasks' = [c \in Channels |->
                        IF c \in Checked(err) THEN CheckChannelSync(c)
                        ELSE sync_tasks[c]]
    /\ loops' = [loops EXCEPT ![l] =
                    [pc |-> "sleep",
                     wait |-> IF TickRaises(err) THEN BackoffSeconds
                              ELSE TickSeconds,
                     tick_error |-> err # "none"]]
    /\ event' = StartEvent("tick", IF err \in Channels THEN err ELSE "",
                           FALSE, IF err \in Channels THEN "channel" ELSE err,
                           l)
    /\ StoreFrame
    /\ UNCHANGED <<configs, running, now>>

\* while self.running (false): the loop task ends
LoopEnd(l) ==
    /\ loops[l].pc = "while"
    /\ ~running
    /\ loops' = [loops EXCEPT ![l].pc = "ended"]
    /\ event' = NoEvent
    /\ StoreFrame
    /\ UNCHANGED <<configs, sync_tasks, running, now>>

\* asyncio.sleep returns
LoopWake(l) ==
    /\ loops[l].pc = "sleep"
    /\ loops' = [loops EXCEPT ![l].pc = "while"]
    /\ event' = NoEvent
    /\ StoreFrame
    /\ UNCHANGED <<configs, sync_tasks, running, now>>

\* ------------------------------------------------------------------- API
DefaultConfig == [exists |-> TRUE, rows |-> 1, sync_enabled |-> TRUE,
                  sync_frequency_hours |-> DefaultFrequencyHours,
                  max_retries |-> DefaultMaxRetries,
                  retry_delay_minutes |-> DefaultRetryDelay,
                  updated_at |-> "insert"]

\* the response of an endpoint: its HTTP status and its body
ApiEvent(op, status, body) ==
    [op |-> op, channel_id |-> ConfiguredChannel, force |-> FALSE,
     outcome |-> status, sync_id |-> 0, body |-> body]

\* db.add(SyncConfiguration(...)); db.commit(): channel_id is unique, a
\* second row for the channel is an IntegrityError and nothing is stored
InsertConfig(config, row) ==
    IF config.rows >= 1 THEN config ELSE row

\* if not config: create the default one (line 52-60, 176-185, 212-214)
FindOrCreate(config) ==
    IF ~config.exists THEN InsertConfig(config, DefaultConfig) ELSE config

\* the read that adds the default row without looking for one, in a table
\* that takes it
GetSyncConfigurationInsertsAlways ==
    /\ configs' = [configs EXCEPT ![ConfiguredChannel] =
                     [DefaultConfig EXCEPT
                        !.rows = configs[ConfiguredChannel].rows + 1]]
    /\ event' = ApiEvent("get_sync_configuration", "200",
                         configs'[ConfiguredChannel])
    /\ StoreFrame
    /\ UNCHANGED <<sync_tasks, running, now, loops>>

\* the read that resets the row it finds to the defaults
GetSyncConfigurationResets ==
    /\ configs' = [configs EXCEPT ![ConfiguredChannel] = DefaultConfig]
    /\ event' = ApiEvent("get_sync_configuration", "200", DefaultConfig)
    /\ StoreFrame
    /\ UNCHANGED <<sync_tasks, running, now, loops>>

\* GET /sync/configuration: the row of the configured channel, created with
\* the defaults when there is none
GetSyncConfiguration ==
    /\ configs' = [configs EXCEPT ![ConfiguredChannel] =
                     FindOrCreate(configs[ConfiguredChannel])]
    /\ event' = ApiEvent("get_sync_configuration", "200",
                         configs'[ConfiguredChannel])
    /\ StoreFrame
    /\ UNCHANGED <<sync_tasks, running, now, loops>>

\* the request of PUT /sync/configuration and the row it answers with
UpdateBody(sync_enabled, sync_frequency_hours, max_retries, config) ==
    [kind |-> "update",
     request |-> [sync_enabled |-> sync_enabled,
                  sync_frequency_hours |-> sync_frequency_hours,
                  max_retries |-> max_retries],
     configuration |-> config]

\* the update that replaces the row by one built from the request alone
UpdateSyncConfigurationReplaces(sync_enabled, sync_frequency_hours, max_retries) ==
    /\ configs' = [configs EXCEPT ![ConfiguredChannel] =
                     [NoConfig EXCEPT
                        !.exists = TRUE, !.rows = 1,
                        !.sync_enabled = sync_enabled,
                        !.sync_frequency_hours = sync_frequency_hours,
                        !.max_retries = max_retries,
                        !.updated_at = "update"]]
    /\ event' = ApiEvent("update_sync_configuration", "200",
                         UpdateBody(sync_enabled, sync_frequency_hours,
                                    max_retries, configs'[ConfiguredChannel]))
    /\ StoreFrame
    /\ UNCHANGED <<sync_tasks, running, now, loops>>

\* PUT /sync/configuration
UpdateSyncConfiguration(sync_enabled, sync_frequency_hours, max_retries) ==
    /\ configs' = [configs EXCEPT ![ConfiguredChannel] =
                     [FindOrCreate(configs[ConfiguredChannel])
                        EXCEPT !.sync_enabled = sync_enabled,
                               !.sync_frequency_hours = sync_frequency_hours,
                               !.max_retries = max_retries,
                               !.updated_at = "update"]]
    /\ event' = ApiEvent("update_sync_configuration", "200",
                         UpdateBody(sync_enabled, sync_frequency_hours,
                                    max_retries, configs'[ConfiguredChannel]))
    /\ StoreFrame
    /\ UNCHANGED <<sync_tasks, running, now, loops>>

\* datetime.now(timezone.utc) - completed_at, in hours: a TypeError when the
\* column came back without its time zone
AgeError == -2
DataAge(completed_at) ==
    IF tz_aware THEN now - completed_at ELSE AgeError

\* round(data_age_hours, 2): the clock of the model counts whole hours
Round2(hours) == hours

\* GET /sync/status, run with the running record current_sync that the
\* unordered query of line 32-37 returns (0: none).  The configuration is
\* created and committed before the age is computed, so it stays when the
\* age raises and the answer is HTTP 500
GetSyncStatus(current_sync) ==
    LET channel_id == ConfiguredChannel
        last == IF CompletedSyncs(channel_id) = {} THEN 0
                ELSE LastCompleted(channel_id)
        sync_config == FindOrCreate(configs[channel_id])
        age == IF last = 0 THEN NULL
               ELSE DataAge(records[last].completed_at)
    IN  /\ current_sync \in IF RunningSyncs(channel_id) = {} THEN {0}
                             ELSE RunningSyncs(channel_id)
        /\ configs' = [configs EXCEPT ![channel_id] = sync_config]
        /\ event' =
             IF age = AgeError
             THEN ApiEvent("get_sync_status", "500", NoBody)
             ELSE ApiEvent("get_sync_status", "200",
                    [kind |-> "status",
                     current_sync |-> current_sync,
                     last_successful_sync |-> last,
                     next_scheduled_sync |->
                        IF last = 0
                        THEN now + sync_config.sync_frequency_hours
                        ELSE records[last].completed_at
                               + sync_config.sync_frequency_hours,
                     sync_frequency_hours |-> sync_config.sync_frequency_hours,
                     data_freshness_hours |-> age,
                     is_sync_needed |-> SyncNeeded(sync_config, channel_id)])
        /\ StoreFrame
        /\ UNCHANGED <<sync_tasks, running, now, loops>>

\* is_stale = data_age_hours > 25; elif data_age_hours > 20 (line 263, 268)
StaleHours     == 25
StaleSoonHours == 20

\* GET /sync/data-freshness
GetDataFreshness ==
    LET channel_id == ConfiguredChannel
        last == IF CompletedSyncs(channel_id) = {} THEN 0
                ELSE LastCompleted(channel_id)
        data_age_hours == IF last = 0 THEN NULL
                          ELSE DataAge(records[last].completed_at)
        is_stale == data_age_hours > StaleHours
    IN  /\ event' =
             IF last = 0
             THEN ApiEvent("get_data_freshness", "200",
                    [kind |-> "freshness", data_age_hours |-> NULL,
                     is_stale |-> TRUE, recommendation |-> "initial",
                     last_sync |-> 0])
             ELSE IF data_age_hours = AgeError
             THEN ApiEvent("get_data_freshness", "500", NoBody)
             ELSE ApiEvent("get_data_freshness", "200",
                    [kind |-> "freshness",
                     data_age_hours |-> Round2(data_age_hours),
                     is_stale |-> is_stale,
                     recommendation |->
                        IF is_stale THEN "stale"
                        ELSE IF data_age_hours > StaleSoonHours
                        THEN "stale soon" ELSE "fresh",
                     last_sync |-> last])
        /\ StoreFrame
        /\ UNCHANGED <<configs, sync_tasks, running, now, loops>>

\* the trigger that stores a cancelled record for the sync it does not start
TriggerSyncStoresCancelled(force_sync) ==
    /\ IF ~force_sync /\ ~CheckSyncNeeded(ConfiguredChannel)
       THEN /\ event' = StartEvent("trigger_sync", ConfiguredChannel,
                                   force_sync, "cancelled", 0)
            /\ records' = Append(records,
                             [NewSyncRecord(ConfiguredChannel)
                                EXCEPT !.sync_status = "cancelled"])
            /\ tasks' = Append(tasks, [NewTask EXCEPT !.pc = "done"])
            /\ UNCHANGED forced
       ELSE StartSync("trigger_sync", ConfiguredChannel, force_sync)
    /\ UNCHANGED <<snapshots, metrics, configs, sync_tasks, running, now,
                   tz_aware, loops>>

\* POST /sync/trigger
TriggerSync(force_sync) ==
    /\ IF ~force_sync /\ ~CheckSyncNeeded(ConfiguredChannel)
       THEN /\ event' = StartEvent("trigger_sync", ConfiguredChannel,
                                   force_sync, "cancelled", 0)
            /\ UNCHANGED <<records, tasks, forced>>
       ELSE StartSync("trigger_sync", ConfiguredChannel, force_sync)
    /\ UNCHANGED <<snapshots, metrics, configs, sync_tasks, running, now,
                   tz_aware, loops>>

\* the clock: time passes until the instant t
AdvanceTime(t) ==
    /\ now < t
    /\ now' = t
    /\ event' = NoEvent
    /\ StoreFrame
    /\ UNCHANGED <<configs, sync_tasks, running, loops>>

\* check_sync_needed that stores the default configuration when it finds
\* none
CheckSyncNeededCallCreates(channel_id) ==
    /\ event' = StartEvent("check_sync_needed", channel_id, FALSE,
                           IF CheckSyncNeeded(channel_id) THEN "true"
                           ELSE "false", 0)
    /\ configs' = IF configs[channel_id].exists THEN configs
                  ELSE [configs EXCEPT ![channel_id] = DefaultConfig]
    /\ StoreFrame
    /\ UNCHANGED <<sync_tasks, running, now, loops>>

\* a call of check_sync_needed(channel_id) and the value it returns
CheckSyncNeededCall(channel_id) ==
    /\ event' = StartEvent("check_sync_needed", channel_id, FALSE,
                           IF CheckSyncNeeded(channel_id) THEN "true"
                           ELSE "false", 0)
    /\ StoreFrame
    /\ UNCHANGED <<configs, sync_tasks, running, now, loops>>

Init ==
    /\ records = <<>>
    /\ snapshots = {}
    /\ metrics = {}
    /\ configs = [c \in Channels |-> NoConfig]
    /\ tasks = <<>>
    /\ sync_tasks = [c \in Channels |-> "none"]
    /\ running = FALSE
    /\ now = 0
    /\ forced = {}
    /\ event = NoEvent
    /\ tz_aware \in BOOLEAN
    /\ loops = <<>>

\* ================================================================ claims
Terminal == {"completed", "failed", "cancelled"}

\* the callers of start_sync: the service entry point, the API trigger and
\* the scheduler task
StartOps == {"trigger_manual_sync", "trigger_sync", "scheduler"}

\* the step is a call of start_sync
StartCall == event'.op \in StartOps /\ event'.outcome # "cancelled"

\* C1: single-flight.  A channel on which start_sync was never called with
\* force=True has at most one record in status running, in every state.
C1_SingleFlight ==
    \A c \in Channels :
        c \notin forced => Cardinality(RunningSyncs(c)) <= 1

\* a non-forced start_sync met the running record of a channel never forced
C1_Witness ==
    /\ event.outcome = "ValueError"
    /\ event.channel_id \notin forced
    /\ Cardinality(RunningSyncs(event.channel_id)) = 1

\* C2: a non-forced start_sync on a channel that has a running record raises
\* ValueError to its caller, changes no row of any table and creates no
\* task; no new dispatch is queued for it (the scheduler drops its entry of
\* the channel, a manual trigger leaves the map alone).
C2_RejectedStart ==
    [][(StartCall /\ ~event'.force /\ RunningSyncs(event'.channel_id) # {})
          => /\ event'.outcome = "ValueError"
             /\ UNCHANGED <<records, snapshots, metrics, configs, tasks>>
             /\ IF event'.op = "scheduler"
                THEN sync_tasks'[event'.channel_id] = "none"
                ELSE UNCHANGED sync_tasks]_vars

\* the scheduler's dispatch was rejected, as was a manual trigger
C2_Witness ==
    /\ event.outcome = "ValueError"
    /\ event.op = "scheduler"

C4_ReturnsBeforePipeline ==
    /\ [](event.outcome = "returned" =>
            /\ event.sync_id \in SyncIds
            /\ records[event.sync_id].sync_status = "running"
            /\ records[event.sync_id].channel_id = event.channel_id
            /\ records[event.sync_id].started_at # NULL
            /\ records[event.sync_id].completed_at = NULL
            /\ tasks[event.sync_id].pc = "collect"
            /\ tasks[event.sync_id].start_time = NULL
            /\ tasks[event.sync_id].api_calls_made = 0)
    /\ [][(\E sid \in SyncIds : tasks'[sid] # tasks[sid])
             => event' = NoEvent]_vars

\* start_sync returned while an earlier task is in its pipeline
C4_Witness ==
    /\ event.outcome = "returned"
    /\ \E sid \in SyncIds : tasks[sid].pc \notin {"collect", "done"}

\* C5: terminal immutability.  No step changes a field of a record whose
\* status is completed, failed or cancelled.
C5_TerminalImmutable ==
    [][\A sid \in SyncIds :
          records[sid].sync_status \in Terminal
              => records'[sid] = records[sid]]_vars

\* two forced attempts of one channel, both ended
C5_Witness ==
    \E s1 \in SyncIds, s2 \in SyncIds :
        /\ s1 < s2
        /\ records[s1].channel_id = records[s2].channel_id
        /\ records[s1].channel_id \in forced
        /\ records[s1].sync_status = "failed"
        /\ records[s2].sync_status = "completed"
        /\ tasks[s1].pc = "done"
        /\ tasks[s2].pc = "done"

\* C6: a record is created in status running, no record is ever pending,
\* and a status changes only from running to completed or to failed.
C6_StatusTransitions ==
    /\ [](\A sid \in SyncIds :
            records[sid].sync_status \in {"running", "completed", "failed"})
    /\ [][/\ \A sid \in SyncIds :
               records'[sid].sync_status # records[sid].sync_status
                   => /\ records[sid].sync_status = "running"
                      /\ records'[sid].sync_status \in {"completed", "failed"}
          /\ \A sid \in (1..Len(records')) \ SyncIds :
               records'[sid].sync_status = "running"]_vars

\* one record completed and one failed
C6_Witness ==
    /\ \E sid \in SyncIds : records[sid].sync_status = "completed"
    /\ \E sid \in SyncIds : records[sid].sync_status = "failed"

SnapshotsOf(sid) == {x \in snapshots : x.sync_id = sid}

\* C7: when collect_daily_metrics, get_all_channel_videos or
\* get_channel_info raised and the except block ran, the record is failed
\* with a non-empty error_message and no snapshot has its sync_id.
C7_FetchFailure ==
    \A sid \in SyncIds :
        (/\ tasks[sid].raised_at \in {"collect", "fetch_videos", "fetch_channel"}
         /\ tasks[sid].pc \in {"metrics", "done"}
         /\ ~tasks[sid].escaped)
            => /\ records[sid].sync_status = "failed"
               /\ records[sid].error_message \notin {NoMessage, ""}
               /\ SnapshotsOf(sid) = {}

\* C8: when the upsert of one video raised, the attempt is completed and
\* videos_synced counts every video of the list that can be upserted.
C8_BestEffortUpserts ==
    \A sid \in SyncIds :
        (/\ tasks[sid].pc = "metrics"
         /\ tasks[sid].raised_at = "none"
         /\ tasks[sid].upsert_errors > 0)
            => /\ records[sid].sync_status = "completed"
               /\ records[sid].videos_synced = tasks[sid].upsertable

\* C9: when the upsert of a video raised, the SyncMetrics row of the attempt
\* has an error counter above zero and the completed record has
\* error_message NULL.
C9_UpsertErrorCounted ==
    \A sid \in SyncIds :
        tasks[sid].upsert_errors > 0
            => /\ \A m \in MetricsOf(sid) : m.api_errors > 0
               /\ records[sid].sync_status = "completed"
                     => records[sid].error_message = NoMessage

\* C10: no SyncMetrics row belongs to a record that is running, and an
\* attempt has at most one row (one when its task ended and the write did
\* not fail).
C10_MetricsAfterTerminal ==
    /\ \A m \in metrics : records[m.sync_id].sync_status # "running"
    /\ \A sid \in SyncIds : Cardinality(MetricsOf(sid)) <= 1

\* C11: a step of _record_sync_metrics that writes no row (the write
\* failed) ends the task normally: no exception leaves the task and no field
\* of any record changes, so the record keeps the status it had.
C11_MetricsFailureSwallowed ==
    [][\A sid \in SyncIds :
          (tasks[sid].pc = "metrics" /\ tasks'[sid].pc # "metrics"
           /\ metrics' = metrics)
              => /\ tasks'[sid].pc = "done"
                 /\ tasks'[sid].escaped = tasks[sid].escaped
                 /\ records' = records
                 /\ snapshots' = snapshots]_vars

\* a completed attempt whose task ended without a SyncMetrics row
C11_Witness ==
    \E sid \in SyncIds :
        /\ tasks[sid].pc = "done"
        /\ MetricsOf(sid) = {}
        /\ ~tasks[sid].escaped
        /\ records[sid].sync_status = "completed"

\* sync_status of the record of sid, "absent" before it is inserted
StatusOf(sid) ==
    IF sid \in SyncIds THEN records[sid].sync_status ELSE "absent"

\* C12: under fair scheduling of the task, every record that is running
\* is eventually completed or failed.
C12_EventuallyTerminal ==
    \A sid \in 1..MaxAttempts :
        (StatusOf(sid) = "running") ~> (StatusOf(sid) \in {"completed", "failed"})

\* the latest completed_at among the completed records of a channel
LatestCompletedAt(c) ==
    CHOOSE t \in {records[sid].completed_at : sid \in CompletedSyncs(c)} :
        \A sid \in CompletedSyncs(c) : records[sid].completed_at <= t

\* C13: for a channel whose configuration is stored, check_sync_needed
\* returns false when sync_enabled is false; otherwise it returns true
\* exactly when the channel has no completed record or now minus the latest
\* completed_at is at least sync_frequency_hours.  Records that are running
\* or failed do not enter the verdict.
C13_CheckSyncNeeded ==
    (event.op = "check_sync_needed" /\ configs[event.channel_id].exists)
        => LET c == event.channel_id
               due == \/ CompletedSyncs(c) = {}
                      \/ now - LatestCompletedAt(c)
                             >= configs[c].sync_frequency_hours
           IN  event.outcome =
                   IF configs[c].sync_enabled /\ due THEN "true" ELSE "false"

\* C14: for a channel that has no record, check_sync_needed returns true
\* when its configuration is enabled and also when none is stored yet.
C14_InitialSyncDue ==
    (/\ event.op = "check_sync_needed"
     /\ \A sid \in SyncIds : records[sid].channel_id # event.channel_id
     /\ (configs[event.channel_id].exists
            => configs[event.channel_id].sync_enabled))
        => event.outcome = "true"

\* C15: a call of check_sync_needed changes no row of any table, no task
\* and no entry of the scheduler's map, and a call that directly follows a
\* call for the same channel returns the same value.
C15_CheckIsPure ==
    [][event'.op = "check_sync_needed"
          => /\ UNCHANGED <<records, snapshots, metrics, configs, tasks,
                            sync_tasks, running, now>>
             /\ (event.op = "check_sync_needed"
                 /\ event.channel_id = event'.channel_id)
                    => event'.outcome = event.outcome]_vars

\* a call that read a completed record and returned true
C15_Witness ==
    /\ event.op = "check_sync_needed"
    /\ event.outcome = "true"
    /\ CompletedSyncs(event.channel_id) # {}

\* C16: the engine has no retry.  The verdict of check_sync_needed is the
\* same for every value of max_retries and retry_delay_minutes; the step
\* that marks a record failed creates no record, queues no dispatch, wakes
\* no loop and leaves the verdict of every channel as it was; and a record
\* is created only by a dispatch that a tick had queued.
C16_NoAutomaticRetry ==
    /\ [](\A c \in Channels, r \in RetryChoices, d \in DelayChoices :
            SyncNeeded([configs[c] EXCEPT !.max_retries = r,
                                          !.retry_delay_minutes = d], c)
                = CheckSyncNeeded(c))
    /\ [][\A sid \in SyncIds :
             (/\ records[sid].sync_status = "running"
              /\ records'[sid].sync_status = "failed")
                 => /\ Len(records') = Len(records)
                    /\ UNCHANGED <<sync_tasks, loops, configs>>
                    /\ \A c \in Channels :
                          CheckSyncNeeded(c)' = CheckSyncNeeded(c)]_vars
    /\ [][Len(records') > Len(records)
             => /\ event'.op = "scheduler"
                /\ sync_tasks[event'.channel_id] = "pending"]_vars

\* an attempt failed and ended while its channel is enabled and due: no
\* dispatch is queued for it
C16_Witness ==
    \E sid \in SyncIds :
        /\ records[sid].sync_status = "failed"
        /\ tasks[sid].pc = "done"
        /\ running
        /\ CheckSyncNeeded(records[sid].channel_id)
        /\ sync_tasks[records[sid].channel_id] = "none"

\* C17: the scheduler calls start_sync for a channel only when the channel
\* has no running record (in SpecLoop every record was dispatched by the
\* scheduler).
C17_NoConcurrentDispatch ==
    [][event'.op = "scheduler" => RunningSyncs(event'.channel_id) = {}]_vars

C19_BackoffAfterError ==
    \A l \in 1..Len(loops) :
        (loops[l].pc = "sleep" /\ loops[l].tick_error)
            => loops[l].wait = BackoffSeconds

LoopAt(l, pc) == l \in 1..Len(loops) /\ loops[l].pc = pc

\* C20: a loop ends only when the running flag is false; an error in the
\* check of one channel leaves the check of every other enabled channel in
\* place; a loop that sleeps after a failed tick returns to its loop test,
\* and from the loop test it ticks again unless the scheduler is stopped.
C20_LoopSurvivesErrors ==
    /\ [][\A l \in 1..Len(loops) :
             (loops'[l].pc = "ended" /\ loops[l].pc # "ended") => ~running]_vars
    /\ [][(event'.op = "tick" /\ event'.outcome = "channel")
             => \A c \in EnabledChannels \ {event'.channel_id} :
                    sync_tasks'[c] = CheckChannelSync(c)]_vars
    /\ \A l \in 1..MaxLoops :
          (LoopAt(l, "sleep") /\ loops[l].tick_error) ~> LoopAt(l, "while")
    /\ \A l \in 1..MaxLoops :
          (LoopAt(l, "while") /\ running) ~> (~running \/ LoopAt(l, "sleep"))

\* a loop back at its loop test after a tick that failed on one channel,
\* with the other channel dispatched
C20_Witness ==
    \E l \in 1..Len(loops), c \in Channels :
        /\ loops[l].pc = "while"
        /\ loops[l].tick_error
        /\ running
        /\ sync_tasks[c] = "pending"

\* C21: graceful stop.  While the scheduler stays stopped no tick begins and
\* no dispatched task calls start_sync, so the scheduler starts no attempt;
\* and once it is stopped every loop task ends, unless the scheduler is
\* started again.
C21_GracefulStop ==
    /\ [][(~running /\ ~running') =>
            /\ event'.op \notin {"tick", "scheduler"}
            /\ \A c \in Channels : sync_tasks'[c] = "none"
            /\ \A l \in 1..Len(loops) :
                  loops[l].pc = "ended" => loops'[l].pc = "ended"]_vars
    /\ (~running) ~> (running \/ \A l \in 1..Len(loops) : LoopAt(l, "ended"))

\* the scheduler dispatched an attempt, was stopped, and its loop has ended
\* while the attempt is still running
C21_Witness ==
    /\ ~running
    /\ Len(loops) > 0
    /\ \A l \in 1..Len(loops) : LoopAt(l, "ended")
    /\ \E sid \in SyncIds : records[sid].sync_status = "running"

\* C22: stop_scheduler changes no SyncRecord and no pipeline task, and every
\* record that is running while the scheduler is stopped reaches completed
\* or failed.
C22_InFlightSurvivesStop ==
    /\ [][(running /\ ~running') =>
            (records' = records /\ tasks' = tasks)]_vars
    /\ \A sid \in 1..MaxAttempts :
          (~running /\ Len(loops) > 0 /\ StatusOf(sid) = "running")
             ~> (StatusOf(sid) \in Terminal)

\* the endpoints that create the configuration when they find none
ReadOps == {"get_sync_configuration", "get_sync_status"}

\* C23: a read of the configuration (configuration read or status query)
\* of a channel without one stores exactly one row with sync_enabled = true
\* and sync_frequency_hours = 24; a read of a channel that has a row changes
\* no configuration; the values returned are the stored ones, so that two
\* reads in a row return the same values.
C23_LazyCreateIdempotent ==
    [][event'.op \in ReadOps =>
         LET old == configs[ConfiguredChannel]
             new == configs'[ConfiguredChannel]
         IN  /\ \A c \in Channels \ {ConfiguredChannel} :
                   configs'[c] = configs[c]
             /\ old.rows = 0 =>
                   /\ new.rows = 1
                   /\ new.sync_enabled
                   /\ new.sync_frequency_hours = 24
             /\ old.rows >= 1 => new = old
             /\ event'.op = "get_sync_configuration" =>
                   /\ event'.outcome = "200"
                   /\ event'.body = new
                   /\ event.op = "get_sync_configuration" =>
                         event'.body = event.body
             /\ (event'.op = "get_sync_status" /\ event'.outcome = "200") =>
                   event'.body.sync_frequency_hours
                      = new.sync_frequency_hours]_vars

\* a read has returned a row that an update had changed: it found the row
\* and left it as it was
C23_Witness ==
    /\ event.op = "get_sync_configuration"
    /\ event.body.rows = 1
    /\ event.body # DefaultConfig
    /\ event.body = configs[ConfiguredChannel]

\* C24: no channel ever has more than one SyncConfiguration row, and a
\* channel has a row exactly when the query for it finds one.
C24_OneConfigPerChannel ==
    \A c \in Channels :
        /\ configs[c].rows <= 1
        /\ configs[c].exists <=> configs[c].rows = 1

\* the status query has run on a channel whose row an update had written
\* before: each of the two would have inserted a row had it found none
C24_Witness ==
    /\ event.op = "get_sync_status"
    /\ configs[ConfiguredChannel].rows = 1
    /\ configs[ConfiguredChannel] # DefaultConfig

\* the operations that write SyncConfiguration rows
ConfigWriters == ReadOps \cup {"update_sync_configuration"}

\* C25: a step that changes a SyncConfiguration row is a configuration
\* update or a read that creates the row; start_sync, the manual triggers,
\* check_sync_needed, the scheduler (start, stop, tick, dispatch) and the
\* pipeline steps leave every row as it is; no step deletes a row.
C25_ConfigFrame ==
    [][/\ configs' # configs => event'.op \in ConfigWriters
       /\ \A c \in Channels : configs'[c].rows >= configs[c].rows]_vars

\* a row exists, and a pipeline the scheduler dispatched has completed
\* beside it
C25_Witness ==
    /\ configs[ConfiguredChannel].rows = 1
    /\ \E sid \in SyncIds : /\ records[sid].sync_status = "completed"
                             /\ records[sid].channel_id = ConfiguredChannel
    /\ ~running
    /\ ConfiguredChannel \notin forced

\* the attempts of a channel and the most recent one (0: none)
AttemptsOf(channel_id) ==
    {sid \in SyncIds : records[sid].channel_id = channel_id}
LatestAttempt(channel_id) ==
    IF AttemptsOf(channel_id) = {} THEN 0
    ELSE CHOOSE sid \in AttemptsOf(channel_id) :
            \A other \in AttemptsOf(channel_id) : other <= sid

\* the records a status response carries
Exposed(body) == {body.current_sync, body.last_successful_sync} \ {0}

\* C26: the status query always answers with a state, and when the most
\* recent attempt of the channel has failed the response carries that
\* failed record (and so its error message).
C26_StatusExposesFailure ==
    event.op = "get_sync_status" =>
        /\ event.outcome = "200"
        /\ LET latest == LatestAttempt(ConfiguredChannel)
           IN  (latest # 0 /\ records[latest].sync_status = "failed") =>
                  latest \in Exposed(event.body)

\* the hours below the threshold in which the data is "stale soon"
StaleSoonMargin == 4

\* C27: the data-freshness summary answers is_stale = true and no age when
\* the channel has no completed record; otherwise it answers the age since
\* the latest completed record, stale when the age has reached the
\* sync_frequency_hours of the channel, "stale soon" in the 4 hours before,
\* fresh otherwise; for an enabled channel is_stale is the verdict of
\* check_sync_needed.
C27_FreshnessPolicy ==
    event.op = "get_data_freshness" =>
        /\ event.outcome = "200"
        /\ LET channel_id == ConfiguredChannel
               sync_config == configs[channel_id]
               age == now - LatestCompletedAt(channel_id)
               threshold == sync_config.sync_frequency_hours
           IN  IF CompletedSyncs(channel_id) = {}
               THEN /\ event.body.is_stale
                    /\ event.body.data_age_hours = NULL
               ELSE /\ event.body.data_age_hours = age
                    /\ sync_config.exists =>
                          /\ event.body.is_stale <=> age >= threshold
                          /\ event.body.recommendation =
                                IF age >= threshold THEN "stale"
                                ELSE IF age >= threshold - StaleSoonMargin
                                THEN "stale soon" ELSE "fresh"
                    /\ (sync_config.exists /\ sync_config.sync_enabled) =>
                          (event.body.is_stale
                             <=> CheckSyncNeeded(channel_id))

\* the data age a response carries: data_freshness_hours of the status
\* query, data_age_hours of the data-freshness summary
ReportedAge(e) ==
    IF e.op = "get_sync_status" THEN e.body.data_freshness_hours
    ELSE e.body.data_age_hours

\* the age the same endpoint reports, at the same instant, for a latest
\* completed record with the given completed_at
AgeReportedFor(e, completed_at) ==
    IF e.op = "get_sync_status" THEN DataAge(completed_at)
    ELSE IF DataAge(completed_at) = AgeError THEN AgeError
    ELSE Round2(DataAge(completed_at))

\* C28: when the status query or the data-freshness summary is asked about
\* a channel with a completed record, it reports an age, and that age is
\* strictly less than the age it reports at the same instant for any
\* earlier completed_at.
C28_AgeMonotone ==
    (/\ event.op \in {"get_sync_status", "get_data_freshness"}
     /\ CompletedSyncs(ConfiguredChannel) # {}) =>
        /\ event.outcome = "200"
        /\ \A t \in 0..now :
              t < LatestCompletedAt(ConfiguredChannel) =>
                 /\ AgeReportedFor(event, t) # AgeError
                 /\ ReportedAge(event) < AgeReportedFor(event, t)

\* C29: the guard is per channel.  start_sync is rejected only when its own
\* channel has a running record, and without one it returns, whatever runs
\* on the other channel; it changes the running records of no other
\* channel.  A step of the pipeline of one attempt changes no record of
\* another channel and adds snapshot and metrics rows of its own channel
\* only.
C29_PerChannelGuard ==
    [][/\ \A c \in Channels :
            (StartCall /\ event'.channel_id = c) =>
               /\ event'.outcome = "ValueError" => RunningSyncs(c) # {}
               /\ RunningSyncs(c) = {} => event'.outcome = "returned"
               /\ \A d \in Channels \ {c} :
                     RunningSyncs(d)' = RunningSyncs(d)
       /\ \A sid \in SyncIds :
            tasks'[sid] # tasks[sid] =>
               /\ \A other \in SyncIds :
                     records[other].channel_id # records[sid].channel_id
                        => records'[other] = records[other]
               /\ \A x \in (snapshots' \ snapshots) \cup (metrics' \ metrics) :
                     x.channel_id = records[sid].channel_id]_vars

\* a non-forced start_sync has returned on one channel while the other
\* channel has a running record, and both channels are running
C29_Witness ==
    /\ forced = {}
    /\ event.op \in StartOps
    /\ event.outcome = "returned"
    /\ \A c \in Channels : RunningSyncs(c) # {}
    /\ \E sid \in SyncIds : tasks[sid].pc \notin {"collect", "done"}

\* the sync of the channel is not needed: its configuration is disabled, or
\* its latest completed record is younger than sync_frequency_hours
NotNeeded(channel_id) ==
    /\ configs[channel_id].exists
    /\ \/ ~configs[channel_id].sync_enabled
       \/ /\ CompletedSyncs(channel_id) # {}
          /\ now - LatestCompletedAt(channel_id)
                < configs[channel_id].sync_frequency_hours

\* C30: a non-forced trigger for a channel whose sync is not needed answers
\* "cancelled" with an empty sync_id; a trigger that answers "cancelled"
\* stores no record and starts no pipeline; no record ever has the status
\* cancelled.
C30_NotNeededIsNoOp ==
    [][/\ (/\ event'.op = "trigger_sync"
           /\ ~event'.force
           /\ NotNeeded(ConfiguredChannel)) => event'.outcome = "cancelled"
       /\ event'.outcome = "cancelled" =>
            /\ event'.sync_id = 0
            /\ records' = records
            /\ tasks' = tasks
            /\ snapshots' = snapshots
            /\ metrics' = metrics
       /\ \A sid \in 1..Len(records') :
            records'[sid].sync_status # "cancelled"]_vars

\* a non-forced trigger was cancelled because the data of the enabled
\* channel is still fresh
C30_Witness ==
    /\ event.op = "trigger_sync"
    /\ event.outcome = "cancelled"
    /\ tz_aware
    /\ configs[ConfiguredChannel].sync_enabled
    /\ CompletedSyncs(ConfiguredChannel) # {}
    /\ NotNeeded(ConfiguredChannel)

\* the estimate an attempt has accumulated when both fetches returned n videos
FullEstimate(n) == MetricsEstimate + (n \div PageSize) + PageOverhead

\* C31: a completed record has api_calls_made = 10 + (n div 50 + 2) for the
\* n videos of its snapshot; a failed record has 0 when
\* collect_daily_metrics raised, 10 when the fetch of the videos raised and
\* 10 + (n div 50 + 2) when a later step raised; every SyncMetrics row
\* has the api_calls_made of the record of its sync_id.
C31_ApiCallEstimate ==
    /\ \A sid \in SyncIds :
          /\ records[sid].sync_status = "completed" =>
                \E x \in SnapshotsOf(sid) :
                    records[sid].api_calls_made = FullEstimate(x.video_count)
          /\ records[sid].sync_status = "failed" =>
                IF tasks[sid].raised_at = "collect"
                THEN records[sid].api_calls_made = 0
                ELSE IF tasks[sid].raised_at = "fetch_videos"
                THEN records[sid].api_calls_made = MetricsEstimate
                ELSE \E n \in 0..MaxVideos :
                        records[sid].api_calls_made = FullEstimate(n)
    /\ \A m \in metrics :
          m.api_calls_made = records[m.sync_id].api_calls_made

\* the order of _perform_sync: from each position of the task, the
\* positions that can follow it
PipelineOrder ==
    {<<"collect", "fetch_videos">>, <<"fetch_videos", "fetch_channel">>,
     <<"fetch_channel", "upsert">>, <<"upsert", "complete">>,
     <<"complete", "metrics">>, <<"metrics", "done">>,
     <<"collect", "handler">>, <<"fetch_videos", "handler">>,
     <<"fetch_channel", "handler">>, <<"complete", "handler">>,
     <<"handler", "metrics">>}

FetchSteps == {"collect", "fetch_videos", "fetch_channel"}

\* C32: a task moves through collect_daily_metrics, the fetch of the
\* videos, the fetch of the channel info with the creation of the snapshot,
\* the upserts, the terminal transition and the SyncMetrics write in this
\* order, one step at a time; the record changes its status only in the
\* transition step and a SyncMetrics row is added only in the last step;
\* after a fetch step has raised the task creates no snapshot and runs no
\* upsert.
C32_PipelineOrder ==
    [][\A sid \in SyncIds :
         /\ tasks'[sid].pc # tasks[sid].pc =>
               <<tasks[sid].pc, tasks'[sid].pc>> \in PipelineOrder
         /\ records'[sid].sync_status # records[sid].sync_status =>
               /\ tasks[sid].pc \in {"complete", "handler"}
               /\ tasks'[sid].pc = "metrics"
         /\ MetricsOf(sid)' # MetricsOf(sid) =>
               (tasks[sid].pc = "metrics" /\ tasks'[sid].pc = "done")
         /\ SnapshotsOf(sid)' # SnapshotsOf(sid) =>
               tasks[sid].pc \in {"complete", "handler"}
         /\ tasks'[sid].raised_at \in FetchSteps =>
               /\ tasks'[sid].pc \in {"handler", "metrics", "done"}
               /\ tasks'[sid].snap_pending = NULL
               /\ tasks'[sid].upsertable = 0
               /\ SnapshotsOf(sid)' = {}]_vars

\* the fetch of the channel info raised after the videos were fetched, and
\* the attempt ended failed without a snapshot
C32_Witness ==
    \E sid \in SyncIds :
        /\ tasks[sid].raised_at = "fetch_channel"
        /\ tasks[sid].pc = "done"
        /\ records[sid].sync_status = "failed"
        /\ records[sid].api_calls_made = FullEstimate(MaxVideos)
        /\ SnapshotsOf(sid) = {}
        /\ MetricsOf(sid) # {}

\* the row an update starts from: the stored one, or the defaults of a new
\* row (whose updated_at is the time of the update in either reading)
UpdateBase(config) ==
    IF config.rows = 0 THEN [DefaultConfig EXCEPT !.updated_at = "update"]
    ELSE config

\* the row with the three fields of the request
WithRequest(config, request) ==
    [config EXCEPT !.sync_enabled = request.sync_enabled,
                   !.sync_frequency_hours = request.sync_frequency_hours,
                   !.max_retries = request.max_retries]

\* C33 as stated: after an update the channel has one row, which is the
\* row it had (or the default row) with sync_enabled, sync_frequency_hours
\* and max_retries of the request and every other field unchanged; no
\* other configuration and no SyncRecord changes.
C33_UpdateChangesThreeFields ==
    [][event'.op = "update_sync_configuration" =>
         /\ configs'[ConfiguredChannel] =
               WithRequest(UpdateBase(configs[ConfiguredChannel]),
                           event'.body.request)
         /\ \A c \in Channels \ {ConfiguredChannel} :
               configs'[c] = configs[c]
         /\ records' = records]_vars

\* C33 amended: the same, except that the update also writes updated_at.
C33_UpdateIsUpsert ==
    [][event'.op = "update_sync_configuration" =>
         /\ configs'[ConfiguredChannel] =
               [WithRequest(UpdateBase(configs[ConfiguredChannel]),
                            event'.body.request)
                  EXCEPT !.updated_at = "update"]
         /\ configs'[ConfiguredChannel].rows = 1
         /\ event'.body.configuration = configs'[ConfiguredChannel]
         /\ \A c \in Channels \ {ConfiguredChannel} :
               configs'[c] = configs[c]
         /\ records' = records]_vars

\* an update has disabled the channel while an attempt of it is stored
C33_Witness ==
    /\ event.op = "update_sync_configuration"
    /\ ~event.body.request.sync_enabled
    /\ configs[ConfiguredChannel] = event.body.configuration
    /\ configs[ConfiguredChannel].retry_delay_minutes = DefaultRetryDelay
    /\ \E sid \in SyncIds : records[sid].channel_id = ConfiguredChannel

\* C34: the fields of every record match its status.  A running record has
\* completed_at, error_message and the duration NULL; a completed record
\* has completed_at and the duration set, completed_at not before
\* started_at, and error_message NULL; a failed record has completed_at,
\* the duration and error_message set.
C34_FieldsMatchStatus ==
    \A sid \in SyncIds :
        LET r == records[sid]
        IN  /\ r.sync_status \in {"running", "completed", "failed"}
            /\ r.sync_status = "running" =>
                  /\ r.completed_at = NULL
                  /\ r.error_message = NoMessage
                  /\ r.sync_duration_seconds = NULL
            /\ r.sync_status = "completed" =>
                  /\ r.completed_at # NULL
                  /\ r.completed_at >= r.started_at
                  /\ r.sync_duration_seconds # NULL
                  /\ r.error_message = NoMessage
            /\ r.sync_status = "failed" =>
                  /\ r.completed_at # NULL
                  /\ r.sync_duration_seconds # NULL
                  /\ r.error_message # NoMessage

\* an attempt started at one hour and failed at a later one
C34_Witness ==
    \E sid \in SyncIds :
        /\ records[sid].sync_status = "failed"
        /\ records[sid].started_at > 0
        /\ records[sid].completed_at > records[sid].started_at
        /\ records[sid].sync_duration_seconds > 0

\* C35: every snapshot has the sync_id and the channel_id of a stored
\* record, whose fetch of the videos and of the channel info returned;
\* no sync_id has two snapshots and every completed record has one; a
\* stored snapshot stays as it is.
C35_SnapshotIntegrity ==
    /\ [](/\ \A x \in snapshots :
               /\ x.sync_id \in SyncIds
               /\ x.channel_id = records[x.sync_id].channel_id
               /\ tasks[x.sync_id].raised_at \notin FetchSteps
               /\ x.video_count # NULL
           /\ \A sid \in SyncIds :
               /\ Cardinality(SnapshotsOf(sid)) <= 1
               /\ records[sid].sync_status = "completed" =>
                     Cardinality(SnapshotsOf(sid)) = 1)
    /\ [][snapshots \subseteq snapshots']_vars

\* an attempt that fetched MaxVideos videos has completed and ended; its
\* snapshot is stored
C35_Witness ==
    \E sid \in SyncIds :
        /\ records[sid].sync_status = "completed"
        /\ tasks[sid].pc = "done"
        /\ \E x \in SnapshotsOf(sid) : x.video_count = MaxVideos

\* the data of an enabled channel is stale: it has no completed record or
\* its latest one is at least sync_frequency_hours old
DataStale(channel_id) ==
    /\ configs[channel_id].exists
    /\ configs[channel_id].sync_enabled
    /\ \/ CompletedSyncs(channel_id) = {}
       \/ now - LatestCompletedAt(channel_id)
             >= configs[channel_id].sync_frequency_hours

\* the channel is due: its data is stale and it has no running record
Due(channel_id) ==
    /\ DataStale(channel_id)
    /\ RunningSyncs(channel_id) = {}

\* the step just taken is a scheduler task whose start_sync returned
StartedByScheduler(channel_id) ==
    /\ event.op = "scheduler"
    /\ event.channel_id = channel_id
    /\ event.outcome = "returned"

\* the store of the model can take one more attempt after the one the
\* database starts with
StoreHasRoom == Len(records) <= MaxAttempts

\* C36: while the scheduler runs, a channel that is due gets an attempt
\* started by the scheduler, unless the scheduler is stopped or a manual
\* trigger ends the channel's being due first (or the bounded store of the
\* model is filled by another attempt first).
C36_DueChannelIsSynced ==
    \A c \in Channels :
        (running /\ Due(c) /\ StoreHasRoom)
            ~> \/ StartedByScheduler(c)
               \/ ~running
               \/ ~Due(c)
               \/ ~StoreHasRoom

\* the loop tasks that are active: asleep between two ticks, or at a while
\* test that lets them tick
ActiveLoops ==
    {l \in 1..Len(loops) :
        \/ loops[l].pc = "sleep"
        \/ loops[l].pc = "while" /\ running}

\* C37: at most one scheduler loop is active at any time, whatever the
\* sequence of start_scheduler and stop_scheduler calls.
C37_OneActiveLoop == Cardinality(ActiveLoops) <= 1

\* C38: the channel of an attempt that the scheduler has just started and
\* that is running in the store is listed in running_syncs of
\* get_sync_status(); total_running_syncs is the number of listed
\* channels and scheduler_running is the running flag.
C38_StatusListsRunning ==
    /\ \A c \in Channels :
          (StartedByScheduler(c)
             /\ records[event.sync_id].sync_status = "running")
          => c \in SchedulerStatus.running_syncs
    /\ SchedulerStatus.total_running_syncs
          = Cardinality(SchedulerStatus.running_syncs)
    /\ SchedulerStatus.scheduler_running = running

\* the latest attempt of a due channel ended failed
FailedWhileDue(channel_id) ==
    /\ Due(channel_id)
    /\ LatestAttempt(channel_id) # 0
    /\ records[LatestAttempt(channel_id)].sync_status = "failed"

\* C39: a failed attempt does not reset the freshness clock: while the
\* latest attempt of a due enabled channel is a failed one,
\* check_sync_needed returns true, a tick without an error dispatches the
\* channel, and the dispatched start_sync creates a new record.
C39_FailureKeepsDue ==
    /\ [](\A c \in Channels : FailedWhileDue(c) => CheckSyncNeeded(c))
    /\ [][\A c \in Channels :
            (FailedWhileDue(c) /\ event'.op = "tick"
                /\ event'.outcome = "none")
            => sync_tasks'[c] = "pending"]_vars
    /\ [][\A c \in Channels :
            (FailedWhileDue(c) /\ event'.op = "scheduler"
                /\ event'.channel_id = c)
            => /\ event'.outcome = "returned"
               /\ Len(records') = Len(records) + 1
               /\ records'[Len(records')].channel_id = c
               /\ records'[Len(records')].sync_status = "running"]_vars

\* the stored configuration of the channel has sync_enabled = false
SyncDisabled(channel_id) ==
    configs[channel_id].exists /\ ~configs[channel_id].sync_enabled

\* C40: no step creates a SyncRecord for a channel whose configuration has
\* sync_enabled = false at that moment, whether the step is a task of the
\* scheduler, POST /sync/trigger (forced or not) or trigger_manual_sync.
C40_DisabledNeverStarted ==
    [][\A c \in Channels :
          SyncDisabled(c) =>
              \A sid \in (Len(records) + 1)..Len(records') :
                  records'[sid].channel_id # c]_vars

\* the store has room for one more attempt (the bound of a run), or the
\* call is one that the guard rejects
Room(n, channel_id, force) ==
    Len(records) < n \/ GuardRejects(channel_id, force)

\* the same for POST /sync/trigger, which calls start_sync only when the
\* trigger is forced or check_sync_needed returns true
TriggerRoom(n, force_sync) ==
    \/ Room(n, ConfiguredChannel, force_sync)
    \/ ~force_sync /\ ~CheckSyncNeeded(ConfiguredChannel)

\* Spec: the scheduler, the manual triggers and the tasks of up to MaxSyncs
\* attempts on two channels, interleaved in every order.  The fetch of the
\* videos returns the empty list or raises and the except block can raise;
\* the other calls succeed (SpecPipeline has every failure).
Next ==
    \/ \E c \in Channels, f \in BOOLEAN :
          Room(MaxSyncs, c, f) /\ TriggerManualSync(c, f)
    \/ \E f \in BOOLEAN :
          Room(MaxSyncs, ConfiguredChannel, f) /\ TriggerSync(f)
    \/ \E c \in Channels : Room(MaxSyncs, c, FALSE) /\ RunChannelSync(c)
    \/ StartScheduler
    \/ StopScheduler
    \/ SchedulerTick
    \/ ~configs[ConfiguredChannel].exists /\ GetSyncConfiguration
    \/ \E sid \in SyncIds : CollectDailyMetrics(sid, FALSE, "boom")
    \/ \E sid \in SyncIds, raises \in BOOLEAN :
          FetchAllVideos(sid, raises, "boom", <<>>)
    \/ \E sid \in SyncIds : FetchChannelInfo(sid, FALSE, "boom")
    \/ \E sid \in SyncIds : UpdateVideoRecords(sid, 0)
    \/ \E sid \in SyncIds : MarkCompleted(sid, FALSE, "boom")
    \/ \E sid \in SyncIds, raises \in BOOLEAN : MarkFailed(sid, raises)
    \/ \E sid \in SyncIds : RecordSyncMetrics(sid, FALSE)

Spec == Init /\ [][Next]_vars

\* SpecPipeline: MaxAttempts attempts on the configured channel, with every
\* result the external calls and the upserts can have
NextPipeline ==
    \/ \E f \in BOOLEAN :
          /\ Room(MaxAttempts, ConfiguredChannel, f)
          /\ TriggerManualSync(ConfiguredChannel, f)
    \/ \E sid \in SyncIds, raises \in BOOLEAN, text \in ErrTexts :
          CollectDailyMetrics(sid, raises, text)
    \/ \E sid \in SyncIds, raises \in BOOLEAN, text \in ErrTexts,
          videos_data \in VideoLists(MaxVideos) :
          FetchAllVideos(sid, raises, text, videos_data)
    \/ \E sid \in SyncIds, raises \in BOOLEAN, text \in ErrTexts :
          FetchChannelInfo(sid, raises, text)
    \/ \E sid \in SyncIds, fail_at \in 0..MaxVideos :
          UpdateVideoRecords(sid, fail_at)
    \/ \E sid \in SyncIds, raises \in BOOLEAN, text \in ErrTexts :
          MarkCompleted(sid, raises, text)
    \/ \E sid \in SyncIds, raises \in BOOLEAN : MarkFailed(sid, raises)
    \/ \E sid \in SyncIds, raises \in BOOLEAN : RecordSyncMetrics(sid, raises)

SpecPipeline == Init /\ [][NextPipeline]_vars

\* SpecClock: the configured channel over the hours of Instants: its
\* configuration is read and updated, syncs are triggered through the API
\* without force, complete or fail, the clock advances, check_sync_needed
\* is called and the status and the data freshness are queried
NextClock ==
    \/ /\ TriggerRoom(MaxAttempts, FALSE)
       /\ TriggerSync(FALSE)
    \/ ~configs[ConfiguredChannel].exists /\ GetSyncConfiguration
    \/ \E sync_enabled \in BOOLEAN, sync_frequency_hours \in FreqChoices,
          max_retries \in RetryChoices :
          UpdateSyncConfiguration(sync_enabled, sync_frequency_hours,
                                  max_retries)
    \/ \E t \in Instants : AdvanceTime(t)
    \/ \E c \in Channels : CheckSyncNeededCall(c)
    \/ \E current_sync \in 0..Len(records) : GetSyncStatus(current_sync)
    \/ GetDataFreshness
    \/ \E sid \in SyncIds : CollectDailyMetrics(sid, FALSE, "boom")
    \/ \E sid \in SyncIds, raises \in BOOLEAN :
          FetchAllVideos(sid, raises, "boom", <<>>)
    \/ \E sid \in SyncIds : FetchChannelInfo(sid, FALSE, "boom")
    \/ \E sid \in SyncIds : UpdateVideoRecords(sid, 0)
    \/ \E sid \in SyncIds : MarkCompleted(sid, FALSE, "boom")
    \/ \E sid \in SyncIds : MarkFailed(sid, FALSE)
    \/ \E sid \in SyncIds : RecordSyncMetrics(sid, FALSE)

SpecClock == Init /\ [][NextClock]_vars

\* the database as the migration or an earlier run of the process left it:
\* a channel has no configuration or the default one.  The build is the
\* default one (SQLite): the clock of SpecLoop stands still, so no completed
\* record is old enough for the time zone of completed_at to matter
InitLoop ==
    /\ now = 0
    /\ records = <<>>
    /\ snapshots = {}
    /\ metrics = {}
    /\ configs \in [Channels -> {NoConfig, DefaultConfig}]
    /\ tasks = <<>>
    /\ sync_tasks = [c \in Channels |-> "none"]
    /\ running = FALSE
    /\ forced = {}
    /\ event = NoEvent
    /\ tz_aware = FALSE
    /\ loops = <<>>

\* SpecLoop: the engine on its own.  The scheduler is started and stopped,
\* its loops tick, sleep and end, the dispatched tasks call start_sync and
\* the pipelines run, the fetch of the videos and the except block can
\* raise; the configuration is read and updated; nobody triggers a sync
NextLoop ==
    \/ Len(loops) < MaxLoops /\ StartSchedulerLoop
    \/ StopScheduler
    \/ \E l \in 1..Len(loops), err \in TickErrors : LoopTick(l, err)
    \/ \E l \in 1..Len(loops) : LoopEnd(l)
    \/ \E l \in 1..Len(loops) : LoopWake(l)
    \/ \E c \in Channels : Room(MaxAttempts, c, FALSE) /\ RunChannelSync(c)
    \/ ~configs[ConfiguredChannel].exists /\ GetSyncConfiguration
    \/ \E sync_enabled \in BOOLEAN, max_retries \in RetryChoices :
          UpdateSyncConfiguration(sync_enabled, DefaultFrequencyHours,
                                  max_retries)
    \/ \E sid \in SyncIds : CollectDailyMetrics(sid, FALSE, "boom")
    \/ \E sid \in SyncIds, raises \in BOOLEAN :
          FetchAllVideos(sid, raises, "boom", <<>>)
    \/ \E sid \in SyncIds : FetchChannelInfo(sid, FALSE, "boom")
    \/ \E sid \in SyncIds : UpdateVideoRecords(sid, 0)
    \/ \E sid \in SyncIds : MarkCompleted(sid, FALSE, "boom")
    \/ \E sid \in SyncIds, raises \in BOOLEAN : MarkFailed(sid, raises)
    \/ \E sid \in SyncIds : RecordSyncMetrics(sid, FALSE)

SpecLoop == InitLoop /\ [][NextLoop]_vars

\* SpecConfig: the configuration store under every operation of the
\* system: the endpoints that read and update the configuration, the manual
\* triggers, check_sync_needed, the scheduler and the pipelines of up to
\* MaxAttempts attempts, interleaved in every order.  Every handler runs
\* without yielding between its query and its commit (one event loop).
NextConfig ==
    \/ GetSyncConfiguration
    \/ \E current_sync \in 0..Len(records) : GetSyncStatus(current_sync)
    \/ \E sync_enabled \in BOOLEAN, max_retries \in RetryChoices :
          UpdateSyncConfiguration(sync_enabled, 1, max_retries)
    \/ \E c \in Channels, f \in BOOLEAN :
          Room(MaxAttempts, c, f) /\ TriggerManualSync(c, f)
    \/ \E f \in BOOLEAN : TriggerRoom(MaxAttempts, f) /\ TriggerSync(f)
    \/ \E c \in Channels : CheckSyncNeededCall(c)
    \/ \E c \in Channels : Room(MaxAttempts, c, FALSE) /\ RunChannelSync(c)
    \/ StartScheduler
    \/ StopScheduler
    \/ SchedulerTick
    \/ \E sid \in SyncIds : CollectDailyMetrics(sid, FALSE, "boom")
    \/ \E sid \in SyncIds, raises \in BOOLEAN :
          FetchAllVideos(sid, raises, "boom", <<>>)
    \/ \E sid \in SyncIds : FetchChannelInfo(sid, FALSE, "boom")
    \/ \E sid \in SyncIds : UpdateVideoRecords(sid, 0)
    \/ \E sid \in SyncIds : MarkCompleted(sid, FALSE, "boom")
    \/ \E sid \in SyncIds : MarkFailed(sid, FALSE)
    \/ \E sid \in SyncIds : RecordSyncMetrics(sid, FALSE)

SpecConfig == Init /\ [][NextConfig]_vars

\* the database an earlier run left: the configured channel has one
\* completed attempt without videos, finished DefaultFrequencyHours ago,
\* with its snapshot and its metrics row
OldSync ==
    [channel_id |-> ConfiguredChannel, sync_status |-> "completed",
     started_at |-> 0, completed_at |-> 0, error_message |-> NoMessage,
     videos_synced |-> 0,
     api_calls_made |-> MetricsEstimate + FetchEstimate(<<>>),
     sync_duration_seconds |-> 0]

InitDue ==
    /\ now = DefaultFrequencyHours
    /\ records = <<OldSync>>
    /\ tasks = <<[NewTask EXCEPT !.pc = "done"]>>
    /\ snapshots = {[sync_id |-> 1, channel_id |-> ConfiguredChannel,
                     video_count |-> 0]}
    /\ metrics = {[metric_id |-> 1, sync_id |-> 1,
                   channel_id |-> ConfiguredChannel,
                   api_calls_made |-> OldSync.api_calls_made,
                   videos_processed |-> 0, videos_updated |-> 0,
                   api_errors |-> 0]}
    /\ configs \in [Channels -> {NoConfig, DefaultConfig}]
    /\ sync_tasks = [c \in Channels |-> "none"]
    /\ running = FALSE
    /\ forced = {}
    /\ event = NoEvent
    /\ tz_aware \in BOOLEAN
    /\ loops = <<>>

\* a dispatched _run_channel_sync task runs
DispatchStep(c) ==
    Room(MaxAttempts + 1, c, FALSE) /\ RunChannelSync(c)

\* SpecDue: the scheduler over a database in which the data of the
\* configured channel is DefaultFrequencyHours old.  The scheduler is
\* started and stopped, its loop ticks without errors, the dispatched
\* tasks call start_sync, trigger_manual_sync forces an attempt, and the
\* pipelines of MaxAttempts more attempts run; the fetch of the videos can
\* raise
NextDue ==
    \/ Len(loops) < MaxLoops /\ StartSchedulerLoop
    \/ StopScheduler
    \/ \E l \in 1..Len(loops) : LoopTick(l, "none")
    \/ \E l \in 1..Len(loops) : LoopEnd(l)
    \/ \E l \in 1..Len(loops) : LoopWake(l)
    \/ \E c \in Channels : DispatchStep(c)
    \/ \E c \in Channels :
          Room(MaxAttempts + 1, c, TRUE) /\ TriggerManualSync(c, TRUE)
    \/ \E sid \in SyncIds : CollectDailyMetrics(sid, FALSE, "boom")
    \/ \E sid \in SyncIds, raises \in BOOLEAN :
          FetchAllVideos(sid, raises, "boom", <<>>)
    \/ \E sid \in SyncIds : FetchChannelInfo(sid, FALSE, "boom")
    \/ \E sid \in SyncIds : UpdateVideoRecords(sid, 0)
    \/ \E sid \in SyncIds : MarkCompleted(sid, FALSE, "boom")
    \/ \E sid \in SyncIds : MarkFailed(sid, FALSE)
    \/ \E sid \in SyncIds : RecordSyncMetrics(sid, FALSE)

SpecDue == InitDue /\ [][NextDue]_vars

\* SpecRestart: every sequence of start_scheduler and stop_scheduler calls
\* with the loop tasks they create, up to MaxLoops + 1 of them: each loop
\* ticks (with and without an error), sleeps, wakes and ends by its own
\* while test.  No dispatched task is run: a tick leaves it in the map and
\* stop_scheduler cancels it
NextRestart ==
    \/ Len(loops) < MaxLoops + 1 /\ StartSchedulerLoop
    \/ StopScheduler
    \/ \E l \in 1..Len(loops), err \in TickErrors : LoopTick(l, err)
    \/ \E l \in 1..Len(loops) : LoopEnd(l)
    \/ \E l \in 1..Len(loops) : LoopWake(l)

SpecRestart == InitLoop /\ [][NextRestart]_vars

\* a step of the loop task l
LoopStep(l) ==
    /\ l \in 1..Len(loops)
    /\ \/ LoopEnd(l)
       \/ LoopWake(l)
       \/ \E err \in TickErrors : LoopTick(l, err)

\* SpecLoopFair: the event loop runs every loop task that can take a step,
\* and every sleep returns
SpecLoopFair ==
    SpecLoop /\ \A l \in 1..MaxLoops : WF_vars(LoopStep(l))

\* a step of the task of sync_id sid, with any result of its calls
TaskStep(sid) ==
    /\ sid \in SyncIds
    /\ \E raises \in BOOLEAN, text \in ErrTexts,
          videos_data \in VideoLists(MaxVideos), fail_at \in 0..MaxVideos :
          \/ CollectDailyMetrics(sid, raises, text)
          \/ FetchAllVideos(sid, raises, text, videos_data)
          \/ FetchChannelInfo(sid, raises, text)
          \/ UpdateVideoRecords(sid, fail_at)
          \/ MarkCompleted(sid, raises, text)
          \/ MarkFailed(sid, raises)
          \/ RecordSyncMetrics(sid, raises)

\* SpecStopFair: SpecLoop where the event loop runs every loop task and
\* every pipeline task that can take a step
SpecStopFair ==
    /\ SpecLoop
    /\ \A l \in 1..MaxLoops : WF_vars(LoopStep(l))
    /\ \A sid \in 1..MaxAttempts : WF_vars(TaskStep(sid))

\* SpecDueFair: the event loop runs every loop task, every dispatched task
\* and every pipeline task that can take a step
SpecDueFair ==
    /\ SpecDue
    /\ \A l \in 1..MaxLoops : WF_vars(LoopStep(l))
    /\ \A c \in Channels : WF_vars(DispatchStep(c))
    /\ \A sid \in 1..(MaxAttempts + 1) : WF_vars(TaskStep(sid))

\* SpecPipelineFair: the event loop runs every task that can take a step, and
\* every external call and storage operation returns or raises
SpecPipelineFair ==
    SpecPipeline /\ \A sid \in 1..MaxAttempts : WF_vars(TaskStep(sid))
====
